---- MODULE Spec2Model ----
(***************************************************************************)
(* Go Feed: workers lease Partitions from a shared relational store, poll  *)
(* the Items at the Partition's gate, queue them to a pool of dispatchers  *)
(* and save every mutation with optimistic concurrency control (OCC).      *)
(*                                                                         *)
(* The store is the pair (part, item) plus the updated_at order of the     *)
(* Items.  Every worker owns a lease loop (acquireLeases), one watcher per *)
(* leased Partition (watchPartition), a bounded item queue and BatchSize   *)
(* dispatchers (itemProcessor).  Workers share nothing but the store.      *)
(*                                                                         *)
(* Time is kept relative: a lease is stored as ttl = until - now, clamped  *)
(* at -1, so that "until < now" is ttl < 0 and a clock tick lowers every   *)
(* ttl by one.                                                             *)
(***************************************************************************)
EXTENDS Integers, Sequences, FiniteSets, TLC

\* ------------------------------------------------------------------ scale
Workers == {"w1", "w2"}

Partitions == {"pA"}

Items == {"i1", "i2"}

\* Watcher.BatchSize as the repository's TestWatcher configures it.
BatchSize == 1

Dispatchers == 1 .. BatchSize

\* Watcher.LeaseDuration in whole clock ticks: a lease stamped now is expired
\* (until < now) once LeaseDuration + 1 ticks have passed.
LeaseDuration == 0

\* MaxRetries, scaled down.
MaxRetries == 1

\* The "times" threshold the counting backend reads from an Item's data.
MaxTimes == 2

\* Gates are capped: the gate increment is disabled at MaxGate.
MaxGate == 2

\* Partition versions are kept within 0 .. MaxVersion (see Rebase).
MaxVersion == 2

\* ---------------------------------------------------------------- Status
Unknown == 0

Available == 1

Complete == 2

Failed == 3

NoOwner == ""

\* ------------------------------------------------------------ repository
\* The partition every Item of the model belongs to (Item.PartitionID).
PartitionID(i) == "pA"

\* A variant of Save that skips the version predicate (UPDATE ... WHERE id).
SaveNoVersionCheck(m, row, ctxDone) ==
    LET m1 == [m EXCEPT !.version = m.version + 1]
    IN  IF ctxDone
        THEN [ok |-> FALSE, mem |-> m, row |-> row]
        ELSE [ok |-> TRUE, mem |-> m1, row |-> m1]

\* A variant of Save that forgets DecrementVersion on the error path.
SaveNoRollback(m, row, ctxDone) ==
    LET m1 == [m EXCEPT !.version = m.version + 1]
    IN  IF ctxDone \/ row.version # m.version
        THEN [ok |-> FALSE, mem |-> m1, row |-> row]
        ELSE [ok |-> TRUE, mem |-> m1, row |-> m1]

\* A variant of Save that writes the row without IncrementVersion.
SaveNoIncrement(m, row, ctxDone) ==
    IF ctxDone \/ row.version # m.version
    THEN [ok |-> FALSE, mem |-> m, row |-> row]
    ELSE [ok |-> TRUE, mem |-> m, row |-> m]

\* GormRepo.Save: version := m.GetVersion(); m.IncrementVersion(); write m
\* WHERE version = <version>.  The write errs when no row carries that version
\* (the ORM then tries to insert the row and hits the primary key) or when the
\* caller's context is done; on error m.DecrementVersion() and return false.
\* The result is the returned bool, the entity in memory and the stored row.
Save(m, row, ctxDone) ==
    LET version == m.version
        m1 == [m EXCEPT !.version = version + 1]
        err == ctxDone \/ row.version # version
    IN  IF err
        THEN [ok |-> FALSE, mem |-> [m1 EXCEPT !.version = m1.version - 1], row |-> row]
        ELSE [ok |-> TRUE, mem |-> m1, row |-> m1]

\* The first n elements of s.
Take(s, n) == IF n >= Len(s) THEN s ELSE SubSeq(s, 1, n)

\* A variant of GetAvailableItems that ignores the gate of the Partition.
GetAvailableItemsAnyGate(rows, ord, pid, gate, limit) ==
    LET match(i) == PartitionID(i) = pid /\ rows[i].status = Available
        all == SelectSeq(ord, match)
        ids == IF limit > 0 THEN Take(all, limit) ELSE all
    IN  [k \in 1 .. Len(ids) |-> rows[ids[k]]]

\* A variant of GetAvailableItems that also returns Items that are not Available.
GetAvailableItemsAnyStatus(rows, ord, pid, gate, limit) ==
    LET match(i) == PartitionID(i) = pid /\ rows[i].gate = gate
        all == SelectSeq(ord, match)
        ids == IF limit > 0 THEN Take(all, limit) ELSE all
    IN  [k \in 1 .. Len(ids) |-> rows[ids[k]]]

\* GormRepo.GetAvailableItems: WHERE partition_id = p.ID AND status = Available
\* AND gate = p.Gate, LIMIT limit, ORDER BY updated_at.  The pinned ORM
\* (gorm v1.20.11) writes the LIMIT clause only for limit > 0, so a limit of 0
\* (a full item queue) fetches every matching row.
GetAvailableItems(rows, ord, pid, gate, limit) ==
    LET match(i) ==
            PartitionID(i) = pid /\ rows[i].status = Available /\ rows[i].gate = gate
        all == SelectSeq(ord, match)
        ids == IF limit > 0 THEN Take(all, limit) ELSE all
    IN  [k \in 1 .. Len(ids) |-> rows[ids[k]]]

\* GormRepo.GetCountByStatus: SELECT status, COUNT(*) WHERE partition_id = id
\* GROUP BY status; a status without rows reads as 0 in the Go map.
GetCountByStatus(rows, pid) ==
    [s \in {Unknown, Available, Complete, Failed} |->
        Cardinality({i \in Items : PartitionID(i) = pid /\ rows[i].status = s})]

\* A variant of GetPotentialLeases that drops the status predicate.
GetPotentialLeasesAnyStatus(prows) == {p \in Partitions : prows[p].ttl < 0}

\* A variant of GetPotentialLeases that drops the `until` predicate.
GetPotentialLeasesAnyTime(prows) == {p \in Partitions : prows[p].status # Complete}

\* GormRepo.GetPotentialLeases: WHERE status != Complete AND until < now.
GetPotentialLeases(prows) ==
    {p \in Partitions : prows[p].status # Complete /\ prows[p].ttl < 0}

\* Partition.Expired: p.Until.Before(time.Now()).
Expired(p) == p.ttl < 0

\* Partition.Active.
Active(p) == p.status = Available /\ ~Expired(p)

\* Partition.InActive, the predicate watchPartition calls after the save.
InActive(p) == ~Active(p)

\* ------------------------------------------------------------- processor
\* IsRetryable: every error but a NonRetryableError.
IsRetryable(e) == ~e.noRetry

\* The err of `resp, err := w.Process(...)` when Process succeeded.
NoError == [err |-> FALSE, msg |-> "", noRetry |-> FALSE]

\* testProcessor.Process: fail when data.fail, else processed++ and answer
\* NextGate = data.gate, Complete = processed >= times.
Process(d) ==
    IF d.fail
    THEN [err |-> TRUE, msg |-> "moving to failed item", noRetry |-> FALSE]
    ELSE LET d1 == [d EXCEPT !.processed = d.processed + 1]
         IN  [err |-> FALSE, NextGate |-> d.gate,
              Complete |-> d1.processed >= d1.times, Data |-> d1]

\* A variant of Item.error that fails the Item when the ceiling is reached.
ItemErrorAtCeiling(i, e, max) ==
    LET i1 == [i EXCEPT !.retry = i.retry + 1,
                        !.errs = IF i.errs = <<>> THEN <<e.msg>>
                                 ELSE IF i.errs # <<e.msg>> THEN Append(i.errs, e.msg)
                                 ELSE i.errs]
    IN  IF ~IsRetryable(e) \/ (i1.retry >= max /\ max >= 0)
        THEN [i1 EXCEPT !.status = Failed]
        ELSE i1

\* A variant of Item.error that fails the Item only at the retry ceiling.
ItemErrorRetryAll(i, e, max) ==
    LET i1 == [i EXCEPT !.retry = i.retry + 1,
                        !.errs = IF i.errs = <<>> THEN <<e.msg>>
                                 ELSE IF i.errs # <<e.msg>> THEN Append(i.errs, e.msg)
                                 ELSE i.errs]
    IN  IF i1.retry > max /\ max >= 0 THEN [i1 EXCEPT !.status = Failed] ELSE i1

\* A variant of Item.error that counts consecutive failures of one message only.
ItemErrorCountRepeats(i, e, max) ==
    LET i1 == [i EXCEPT !.retry = IF i.errs = <<>> \/ i.errs = <<e.msg>>
                                  THEN i.retry + 1 ELSE 1,
                        !.errs = IF i.errs = <<>> THEN <<e.msg>>
                                 ELSE IF i.errs # <<e.msg>> THEN Append(i.errs, e.msg)
                                 ELSE i.errs]
    IN  IF ~IsRetryable(e) \/ (i1.retry > max /\ max >= 0)
        THEN [i1 EXCEPT !.status = Failed]
        ELSE i1

\* Item.error under MaxRetries = max: RetryCount++; ErrorMessages, kept as
\* the sequence of its lines (messages are not empty and hold no newline),
\* becomes the message when it was empty and gains the message as a new line
\* when the whole of it differs from the message; then Failed when the error
\* is not retryable or the retry ceiling is passed.
ItemError(i, e, max) ==
    LET i1 == [i EXCEPT !.retry = i.retry + 1,
                        !.errs = IF i.errs = <<>> THEN <<e.msg>>
                                 ELSE IF i.errs # <<e.msg>> THEN Append(i.errs, e.msg)
                                 ELSE i.errs]
    IN  IF ~IsRetryable(e) \/ (i1.retry > max /\ max >= 0)
        THEN [i1 EXCEPT !.status = Failed]
        ELSE i1

\* A variant of processItem in which a success clears the retry count.
ProcessItemResetRetry(i, resp, max) ==
    IF resp.err
    THEN ItemError(i, resp, max)
    ELSE [i EXCEPT !.status = IF resp.Complete THEN Complete ELSE i.status,
                   !.gate = resp.NextGate,
                   !.data = resp.Data,
                   !.retry = 0]

\* Watcher.processItem up to the deferred Save, once Process has returned
\* resp: the Item as the dispatcher holds it then.
ProcessItem(i, resp, max) ==
    IF resp.err
    THEN ItemError(i, resp, max)
    ELSE [i EXCEPT !.status = IF resp.Complete THEN Complete ELSE i.status,
                   !.gate = resp.NextGate,
                   !.data = resp.Data]

\* ------------------------------------------------------- HTTP processor
\* The status codes of the backend's answers, around the bounds of 200-299.
Codes == {199, 200, 299, 300, 500}

\* http.Response.Status for a status code, as the test client writes it.
Status(code) == "HTTP " \o ToString(code)

\* The `error` member of the envelope: null or absent, or an object whose
\* members message and no_retry decode to "" and false when absent.
EnvelopeErrors ==
    {[present |-> FALSE, message |-> "", noRetry |-> FALSE]}
        \cup {[present |-> TRUE, message |-> m, noRetry |-> n] :
                 m \in {"", "a", "b"}, n \in BOOLEAN}

\* The `gate` member of the envelope: absent or a number.
EnvelopeGates ==
    {[present |-> FALSE, val |-> 0]} \cup {[present |-> TRUE, val |-> g] : g \in 0 .. 2}

\* The `complete` member of the envelope: absent or a bool.
EnvelopeCompletes ==
    {[present |-> FALSE, val |-> FALSE]} \cup {[present |-> TRUE, val |-> c] : c \in BOOLEAN}

\* The `response` member of the envelope: absent or an object.
EnvelopeDatas ==
    {[present |-> FALSE, val |-> ""], [present |-> TRUE, val |-> "{\"data\":1}"]}

\* What Client.Post returns: an error, or a response with a status code and a
\* body that is a JSON envelope or something json cannot decode into one.
Responses ==
    [posted : BOOLEAN, code : Codes, decodable : BOOLEAN, error : EnvelopeErrors,
     gate : EnvelopeGates, complete : EnvelopeCompletes, data : EnvelopeDatas]

\* The response of a backend that was not called.
NoResponse ==
    [posted |-> FALSE, code |-> 200, decodable |-> FALSE,
     error |-> [present |-> FALSE, message |-> "", noRetry |-> FALSE],
     gate |-> [present |-> FALSE, val |-> 0],
     complete |-> [present |-> FALSE, val |-> FALSE],
     data |-> [present |-> FALSE, val |-> ""]]

\* json.Decode of the body into the response struct: an absent member leaves
\* the zero value of its field (gate 0, complete false, nil map, nil error).
Decode(r) ==
    [NextGate |-> IF r.gate.present THEN r.gate.val ELSE 0,
     Complete |-> IF r.complete.present THEN r.complete.val ELSE FALSE,
     Data |-> r.data,
     Error |-> r.error]

\* response.GetData: a nil map is encoded as the empty object; the encoder
\* ends its output with a newline.
GetData(d) == (IF d.present THEN d.val ELSE "{}") \o "\n"

\* response.procResponse.
ProcResponse(o) ==
    [err |-> FALSE, NextGate |-> o.NextGate, Complete |-> o.Complete, Data |-> GetData(o.Data)]

\* A variant of Processor.Process that looks at the status code before the
\* envelope's error.
HTTPProcessStatusFirst(r) ==
    IF ~r.posted THEN [err |-> TRUE, msg |-> "post error", noRetry |-> FALSE]
    ELSE IF ~r.decodable
    THEN [err |-> TRUE, noRetry |-> FALSE,
          msg |-> "marshal error: EOF, from request with HTTP Status: " \o Status(r.code)]
    ELSE LET o == Decode(r)
         IN  IF r.code < 200 \/ r.code >= 300
             THEN [err |-> TRUE, msg |-> Status(r.code), noRetry |-> FALSE]
             ELSE IF o.Error.present
             THEN [err |-> TRUE, noRetry |-> o.Error.noRetry,
                   msg |-> "Status " \o Status(r.code) \o "; message: " \o o.Error.message]
             ELSE ProcResponse(o)

\* httprocessor.Processor.Process on what Client.Post returned: the client's
\* error; a marshal error when the body does not decode; the envelope's
\* error, non-retryable when no_retry is set; the status when the code is
\* outside 200-299; else the response.
HTTPProcess(r) ==
    IF ~r.posted THEN [err |-> TRUE, msg |-> "post error", noRetry |-> FALSE]
    ELSE IF ~r.decodable
    THEN [err |-> TRUE, noRetry |-> FALSE,
          msg |-> "marshal error: EOF, from request with HTTP Status: " \o Status(r.code)]
    ELSE LET o == Decode(r)
         IN  IF o.Error.present
             THEN [err |-> TRUE, noRetry |-> o.Error.noRetry,
                   msg |-> "Status " \o Status(r.code) \o "; message: " \o o.Error.message]
             ELSE IF r.code < 200 \/ r.code >= 300
             THEN [err |-> TRUE, msg |-> Status(r.code), noRetry |-> FALSE]
             ELSE ProcResponse(o)

\* ------------------------------------------------------------------ state
VARIABLES
    part,       \* store: Partition rows
    item,       \* store: Item rows
    order,      \* store: the Items by updated_at, oldest first
    conf,       \* per worker: AutoClose, ManualCheckpoint, whether its context can be cancelled
    cancelled,  \* per worker: ctx.Done() is closed
    apc,        \* per worker: position of Start / watch / acquireLeases
    pending,    \* per worker: the Partitions the lease query returned, not yet visited
    leases,     \* per worker: the ids in the leases map
    wg,         \* per worker: the WaitGroup counter of acquireLeases
    wpc,        \* per worker and Partition: position of watchPartition
    pmem,       \* per worker and Partition: the watcher's Partition in memory
    fetched,    \* per worker and Partition: the items of the tick not yet enqueued
    itemQ,      \* per worker: the buffered channel of Items
    qclosed,    \* per worker: close(w.itemQ) has run
    dpc,        \* per worker and dispatcher: position of itemProcessor
    ditem,      \* per worker and dispatcher: the Item in processItem
    derr,       \* per worker and dispatcher: the err Process returned in processItem
    hresp,      \* HTTP backend: what Client.Post returns to Processor.Process
    hres        \* HTTP backend: what Processor.Process returned (<<>> before the call)

vars == <<part, item, order, conf, cancelled, apc, pending, leases, wg, wpc, pmem,
          fetched, itemQ, qclosed, dpc, ditem, derr, hresp, hres>>

storeVars == <<part, item, order>>

leaseVars == <<apc, pending, leases, wg>>

watchVars == <<wpc, pmem, fetched>>

dispVars == <<dpc, ditem, derr>>
httpVars == <<hresp, hres>>

\* The Partition a watcher holds before GetPotentialLeases handed it one.
NoPartition ==
    [id |-> "", version |-> 0, gate |-> 0, status |-> Unknown, owner |-> NoOwner, ttl |-> -1]

\* The Item a dispatcher holds before it received one.
NoItem ==
    [id |-> "", version |-> 0, gate |-> 0, status |-> Unknown, retry |-> 0,
     errs |-> <<>>, data |-> [times |-> 0, processed |-> 0, fail |-> FALSE, gate |-> 0]]

\* ------------------------------------------------------------ lease loop
\* A set as a sequence, in the order GetPotentialLeases returns its rows.
RECURSIVE SetToSeq(_)
SetToSeq(S) ==
    IF S = {} THEN <<>>
    ELSE LET x == CHOOSE y \in S : TRUE IN <<x>> \o SetToSeq(S \ {x})

\* acquireLeases, the head of the loop, entered from Start or from
\* `case <-t.C: continue`: partitions, err := w.GetPotentialLeases(ctx).  A
\* done context fails the query and the pass visits nothing.
AcquireQuery(w) ==
    /\ apc[w] = "select"
    /\ LET ids == IF cancelled[w] THEN <<>> ELSE SetToSeq(GetPotentialLeases(part))
           rows == [k \in 1 .. Len(ids) |-> part[ids[k]]]
       IN  /\ rows # <<>>
           /\ pending' = [pending EXCEPT ![w] = rows]
           /\ apc' = [apc EXCEPT ![w] = "spawn"]
    /\ UNCHANGED <<httpVars, storeVars, conf, cancelled, leases, wg, watchVars, itemQ, qclosed,
                   dispVars>>

\* A variant of acquireLeases' loop body that starts a watcher for every row
\* the query returned, whatever the leases map holds.
AcquireSpawnAlways(w) ==
    /\ apc[w] = "spawn"
    /\ LET p == Head(pending[w])
           rest == Tail(pending[w])
       IN  /\ pending' = [pending EXCEPT ![w] = rest]
           /\ apc' = [apc EXCEPT ![w] = IF rest = <<>> THEN "select" ELSE "spawn"]
           /\ wg' = [wg EXCEPT ![w] = wg[w] + 1]
           /\ leases' = [leases EXCEPT ![w] = leases[w] \cup {p.id}]
           /\ wpc' = [wpc EXCEPT ![w][p.id] = "poll"]
           /\ pmem' = [pmem EXCEPT ![w][p.id] = p]
    /\ UNCHANGED <<httpVars, storeVars, conf, cancelled, fetched, itemQ, qclosed, dispVars>>

\* acquireLeases, one iteration of `for _, p := range partitions` under w.mu:
\* skip an id the leases map holds, else wg.Add(1), record it and start
\* watchPartition on the row the query returned.
AcquireSpawn(w) ==
    /\ apc[w] = "spawn"
    /\ LET p == Head(pending[w])
           rest == Tail(pending[w])
       IN  /\ pending' = [pending EXCEPT ![w] = rest]
           /\ apc' = [apc EXCEPT ![w] = IF rest = <<>> THEN "select" ELSE "spawn"]
           /\ IF p.id \in leases[w]
              THEN UNCHANGED <<leases, wg, wpc, pmem>>
              ELSE /\ wg' = [wg EXCEPT ![w] = wg[w] + 1]
                   /\ leases' = [leases EXCEPT ![w] = leases[w] \cup {p.id}]
                   /\ wpc' = [wpc EXCEPT ![w][p.id] = "poll"]
                   /\ pmem' = [pmem EXCEPT ![w][p.id] = p]
    /\ UNCHANGED <<httpVars, storeVars, conf, cancelled, fetched, itemQ, qclosed, dispVars>>

\* acquireLeases, `case <-ctx.Done()`: stop the ticker and wait for the watchers.
AcquireDone(w) ==
    /\ apc[w] = "select"
    /\ cancelled[w]
    /\ apc' = [apc EXCEPT ![w] = "wait"]
    /\ UNCHANGED <<httpVars, storeVars, conf, cancelled, pending, leases, wg, watchVars, itemQ,
                   qclosed, dispVars>>

\* A variant of AcquireClose that closes the queue without wg.Wait().
AcquireCloseNoWait(w) ==
    /\ apc[w] = "wait"
    /\ qclosed' = [qclosed EXCEPT ![w] = TRUE]
    /\ apc' = [apc EXCEPT ![w] = "drain"]
    /\ UNCHANGED <<httpVars, storeVars, conf, cancelled, pending, leases, wg, watchVars, itemQ,
                   dispVars>>

\* acquireLeases, wg.Wait() has returned: close(w.itemQ) and return to watch.
AcquireClose(w) ==
    /\ apc[w] = "wait"
    /\ wg[w] = 0
    /\ qclosed' = [qclosed EXCEPT ![w] = TRUE]
    /\ apc' = [apc EXCEPT ![w] = "drain"]
    /\ UNCHANGED <<httpVars, storeVars, conf, cancelled, pending, leases, wg, watchVars, itemQ,
                   dispVars>>

\* watch, wg.Wait() on the dispatchers has returned: Start returns.
StartReturn(w) ==
    /\ apc[w] = "drain"
    /\ \A d \in Dispatchers : dpc[w][d] = "done"
    /\ apc' = [apc EXCEPT ![w] = "returned"]
    /\ UNCHANGED <<httpVars, storeVars, conf, cancelled, pending, leases, wg, watchVars, itemQ,
                   qclosed, dispVars>>

\* ---------------------------------------------------------------- watcher
\* A watcher leaves its loop: the deferred function runs next.
Leave(w, p) == [wpc EXCEPT ![w][p] = "cleanup"]

\* watchPartition, the head of the loop, entered at the start or from
\* `case <-t.C: continue`:
\* items, err := w.GetAvailableItems(ctx, p, w.BatchSize-len(w.itemQ)).
WFetch(w, p) ==
    /\ wpc[w][p] = "poll"
    /\ IF cancelled[w]
       THEN /\ wpc' = Leave(w, p)
            /\ UNCHANGED fetched
       ELSE /\ fetched' = [fetched EXCEPT ![w][p] =
                   GetAvailableItems(item, order, p, pmem[w][p].gate,
                                     BatchSize - Len(itemQ[w]))]
            /\ wpc' = [wpc EXCEPT ![w][p] = "counts"]
    /\ UNCHANGED <<httpVars, storeVars, conf, cancelled, leaseVars, pmem, itemQ, qclosed, dispVars>>

\* A variant of NextPartition that advances the gate whatever the fetch returned.
NextPartitionAlwaysAdvance(w, p, items, counts) ==
    IF counts[Failed] > 0
    THEN [p EXCEPT !.status = Failed]
    ELSE IF counts[Available] > 0
    THEN [p EXCEPT !.status = Available,
                   !.gate = IF ~conf[w].ManualCheckpoint THEN p.gate + 1 ELSE p.gate]
    ELSE [p EXCEPT !.status = IF Len(items) = 0 /\ conf[w].AutoClose
                              THEN Complete ELSE p.status]

\* A variant of NextPartition that never closes the Partition.
NextPartitionNeverClose(w, p, items, counts) ==
    IF counts[Failed] > 0
    THEN [p EXCEPT !.status = Failed]
    ELSE IF counts[Available] > 0
    THEN [p EXCEPT !.status = Available,
                   !.gate = IF Len(items) = 0 /\ ~conf[w].ManualCheckpoint
                            THEN p.gate + 1 ELSE p.gate]
    ELSE p

\* A variant of NextPartition without the Failed branch.
NextPartitionIgnoreFailed(w, p, items, counts) ==
    IF counts[Available] > 0
    THEN [p EXCEPT !.status = Available,
                   !.gate = IF Len(items) = 0 /\ ~conf[w].ManualCheckpoint
                            THEN p.gate + 1 ELSE p.gate]
    ELSE [p EXCEPT !.status = IF Len(items) = 0 /\ conf[w].AutoClose
                              THEN Complete ELSE p.status]

\* A variant of watchPartition that closes a Partition left without Available
\* Items whatever AutoClose says.
NextPartitionCloseAnyway(w, p, items, counts) ==
    IF counts[Failed] > 0
    THEN [p EXCEPT !.status = Failed]
    ELSE IF counts[Available] > 0
    THEN [p EXCEPT !.status = Available,
                   !.gate = IF Len(items) = 0 /\ ~conf[w].ManualCheckpoint
                            THEN p.gate + 1 ELSE p.gate]
    ELSE [p EXCEPT !.status = IF Len(items) = 0 THEN Complete ELSE p.status]

\* A variant of watchPartition that raises the gate whatever ManualCheckpoint
\* says.
NextPartitionIgnoreManual(w, p, items, counts) ==
    IF counts[Failed] > 0
    THEN [p EXCEPT !.status = Failed]
    ELSE IF counts[Available] > 0
    THEN [p EXCEPT !.status = Available,
                   !.gate = IF Len(items) = 0 THEN p.gate + 1 ELSE p.gate]
    ELSE [p EXCEPT !.status = IF Len(items) = 0 /\ conf[w].AutoClose
                              THEN Complete ELSE p.status]

\* A variant of watchPartition that never raises the gate.
NextPartitionKeepGate(w, p, items, counts) ==
    IF counts[Failed] > 0
    THEN [p EXCEPT !.status = Failed]
    ELSE IF counts[Available] > 0
    THEN [p EXCEPT !.status = Available]
    ELSE [p EXCEPT !.status = IF Len(items) = 0 /\ conf[w].AutoClose
                              THEN Complete ELSE p.status]

\* watchPartition, the status and gate of the tick from the fetched items and
\* the counts: Failed if any Item is Failed; else Available, and gate++ when
\* the fetch was empty and ManualCheckpoint is off, if Items are Available;
\* else Complete when the fetch was empty and AutoClose is on.
NextPartition(w, p, items, counts) ==
    IF counts[Failed] > 0
    THEN [p EXCEPT !.status = Failed]
    ELSE IF counts[Available] > 0
    THEN [p EXCEPT !.status = Available,
                   !.gate = IF Len(items) = 0 /\ ~conf[w].ManualCheckpoint
                            THEN p.gate + 1 ELSE p.gate]
    ELSE [p EXCEPT !.status = IF Len(items) = 0 /\ conf[w].AutoClose
                              THEN Complete ELSE p.status]

\* watchPartition, counts, err := w.GetCountByStatus(ctx, p.ID) and the branch
\* on the counts.  The gate increment is capped at MaxGate.
WCounts(w, p) ==
    /\ wpc[w][p] = "counts"
    /\ IF cancelled[w]
       THEN /\ wpc' = Leave(w, p)
            /\ UNCHANGED pmem
       ELSE LET next == NextPartition(w, pmem[w][p], fetched[w][p],
                                      GetCountByStatus(item, p))
            IN  /\ next.gate <= MaxGate
                /\ pmem' = [pmem EXCEPT ![w][p] = next]
                /\ wpc' = [wpc EXCEPT ![w][p] = "save"]
    /\ UNCHANGED <<httpVars, storeVars, conf, cancelled, leaseVars, fetched, itemQ, qclosed,
                   dispVars>>

\* A variant of Stamp that keeps the owner the row was read with.
StampKeepOwner(w, p) == [p EXCEPT !.ttl = LeaseDuration]

\* watchPartition, p.Owner = w.OwnerID; p.Until = time.Now().Add(w.LeaseDuration).
Stamp(w, p) == [p EXCEPT !.owner = w, !.ttl = LeaseDuration]

\* A variant of AfterSave that enqueues whatever the save and the status say.
AfterSaveAlwaysEnqueue(ok, p, items) == IF items = <<>> THEN "poll" ELSE "enqueue"

\* watchPartition, after the save: return when it failed or the Partition is
\* inactive; else enqueue the fetched items, then wait for the ticker.
AfterSave(ok, p, items) ==
    IF ~ok \/ InActive(p) THEN "cleanup"
    ELSE IF items = <<>> THEN "poll" ELSE "enqueue"

\* Save compares versions for equality only, and every lease renewal raises
\* the Partition's version.  To keep the versions within 0 .. MaxVersion, a
\* save by a watcher whose copy stands at MaxVersion first lowers the stored
\* version and every copy of the row in memory by one (a copy that is current
\* stays current, a stale copy stays stale), and then runs as the code does.
Rebase(from, row) ==
    IF from.version = MaxVersion /\ row.id = from.id
    THEN [row EXCEPT !.version = IF row.version > 0 THEN row.version - 1 ELSE 0]
    ELSE row

\* watchPartition, the lease stamp, w.Save(ctx, p) and the exits after it.
WSave(w, p) ==
    /\ wpc[w][p] = "save"
    /\ LET from == pmem[w][p]
           r == Save(Stamp(w, Rebase(from, from)), Rebase(from, part[p]), cancelled[w])
       IN  /\ part' = [part EXCEPT ![p] = r.row]
           /\ pmem' = [v \in Workers |->
                         [pmem[v] EXCEPT ![p] = IF v = w THEN r.mem
                                                ELSE Rebase(from, pmem[v][p])]]
           /\ pending' = [v \in Workers |->
                            [k \in 1 .. Len(pending[v]) |-> Rebase(from, pending[v][k])]]
           /\ wpc' = [wpc EXCEPT ![w][p] = AfterSave(r.ok, r.mem, fetched[w][p])]
    /\ UNCHANGED <<httpVars, item, order, conf, cancelled, apc, leases, wg, fetched, itemQ, qclosed,
                   dispVars>>

\* A variant of the send that never blocks.
WEnqueueNoBound(w, p) ==
    /\ wpc[w][p] = "enqueue"
    /\ itemQ' = [itemQ EXCEPT ![w] = Append(itemQ[w], Head(fetched[w][p]))]
    /\ fetched' = [fetched EXCEPT ![w][p] = Tail(fetched[w][p])]
    /\ wpc' = [wpc EXCEPT ![w][p] =
                  IF Tail(fetched[w][p]) = <<>> THEN "poll" ELSE "enqueue"]
    /\ UNCHANGED <<httpVars, storeVars, conf, cancelled, leaseVars, pmem, qclosed, dispVars>>

\* watchPartition, one `w.itemQ <- i`: blocks while the channel is full.  The
\* send does not look at whether the channel was closed.
WEnqueue(w, p) ==
    /\ wpc[w][p] = "enqueue"
    /\ Len(itemQ[w]) < BatchSize
    /\ itemQ' = [itemQ EXCEPT ![w] = Append(itemQ[w], Head(fetched[w][p]))]
    /\ fetched' = [fetched EXCEPT ![w][p] = Tail(fetched[w][p])]
    /\ wpc' = [wpc EXCEPT ![w][p] =
                  IF Tail(fetched[w][p]) = <<>> THEN "poll" ELSE "enqueue"]
    /\ UNCHANGED <<httpVars, storeVars, conf, cancelled, leaseVars, pmem, qclosed, dispVars>>

\* watchPartition, `case <-ctx.Done(): return`.
WCancel(w, p) ==
    /\ wpc[w][p] = "poll"
    /\ cancelled[w]
    /\ wpc' = Leave(w, p)
    /\ UNCHANGED <<httpVars, storeVars, conf, cancelled, leaseVars, pmem, fetched, itemQ, qclosed,
                   dispVars>>

\* watchPartition, the deferred function: delete(w.leases, p.ID) under w.mu,
\* then wg.Done().
WExit(w, p) ==
    /\ wpc[w][p] = "cleanup"
    /\ leases' = [leases EXCEPT ![w] = leases[w] \ {p}]
    /\ wg' = [wg EXCEPT ![w] = wg[w] - 1]
    /\ wpc' = [wpc EXCEPT ![w][p] = "none"]
    /\ pmem' = [pmem EXCEPT ![w][p] = NoPartition]
    /\ fetched' = [fetched EXCEPT ![w][p] = <<>>]
    /\ UNCHANGED <<httpVars, storeVars, conf, cancelled, apc, pending, itemQ, qclosed, dispVars>>

\* The deferred function of watchPartition in its two steps, for the runs
\* that interleave them with the lease loop.
\* The watcher goroutines of w that have deleted their id from the leases map
\* and have yet to call wg.Done(): wg counts them beside the running watchers.
Exiting(w) == wg[w] - Cardinality({p \in Partitions : wpc[w][p] # "none"})

\* No more watcher goroutines of one worker than this stand between their
\* delete and their wg.Done() at once.
MaxExiting == 1

\* A variant of the deferred function that leaves the id in the leases map.
WDeleteKeepLease(w, p) ==
    /\ wpc[w][p] = "cleanup"
    /\ Exiting(w) < MaxExiting
    /\ wpc' = [wpc EXCEPT ![w][p] = "none"]
    /\ pmem' = [pmem EXCEPT ![w][p] = NoPartition]
    /\ fetched' = [fetched EXCEPT ![w][p] = <<>>]
    /\ UNCHANGED <<httpVars, storeVars, conf, cancelled, apc, pending, leases, wg, itemQ,
                   qclosed, dispVars>>

\* watchPartition, the deferred function up to w.mu.Unlock(): t.Stop() and
\* delete(w.leases, p.ID) under w.mu.  wg.Done() is still to come.
WDelete(w, p) ==
    /\ wpc[w][p] = "cleanup"
    /\ Exiting(w) < MaxExiting
    /\ leases' = [leases EXCEPT ![w] = leases[w] \ {p}]
    /\ wpc' = [wpc EXCEPT ![w][p] = "none"]
    /\ pmem' = [pmem EXCEPT ![w][p] = NoPartition]
    /\ fetched' = [fetched EXCEPT ![w][p] = <<>>]
    /\ UNCHANGED <<httpVars, storeVars, conf, cancelled, apc, pending, wg, itemQ, qclosed,
                   dispVars>>

\* watchPartition, the end of the deferred function of a watcher that has
\* deleted its id: wg.Done().
WDone(w) ==
    /\ Exiting(w) > 0
    /\ wg' = [wg EXCEPT ![w] = wg[w] - 1]
    /\ UNCHANGED <<httpVars, storeVars, conf, cancelled, apc, pending, leases, watchVars,
                   itemQ, qclosed, dispVars>>

\* ------------------------------------------------------------- dispatcher
\* itemProcessor, `for item := range w.itemQ` receives an Item and processItem
\* calls Process on it; the deferred Save is still to run.
DProcess(w, d) ==
    /\ dpc[w][d] = "recv"
    /\ itemQ[w] # <<>>
    /\ itemQ' = [itemQ EXCEPT ![w] = Tail(itemQ[w])]
    /\ LET resp == Process(Head(itemQ[w]).data)
       IN  /\ ditem' = [ditem EXCEPT ![w][d] =
                          ProcessItem(Head(itemQ[w]), resp, conf[w].MaxRetries)]
           /\ derr' = [derr EXCEPT ![w][d] = IF resp.err THEN resp ELSE NoError]
    /\ dpc' = [dpc EXCEPT ![w][d] = "save"]
    /\ UNCHANGED <<httpVars, storeVars, conf, cancelled, leaseVars, watchVars, qclosed>>

\* The updated_at order once Item id has been written.
Touch(ord, id) == SelectSeq(ord, LAMBDA x : x # id) \o <<id>>

\* processItem, the deferred w.Save(ctx, i).
DSave(w, d) ==
    /\ dpc[w][d] = "save"
    /\ LET i == ditem[w][d]
           r == Save(i, item[i.id], cancelled[w])
       IN  /\ item' = [item EXCEPT ![i.id] = r.row]
           /\ ditem' = [ditem EXCEPT ![w][d] = NoItem]
           /\ derr' = [derr EXCEPT ![w][d] = NoError]
           /\ order' = IF r.ok THEN Touch(order, i.id) ELSE order
    /\ dpc' = [dpc EXCEPT ![w][d] = "recv"]
    /\ UNCHANGED <<httpVars, part, conf, cancelled, leaseVars, watchVars, itemQ, qclosed>>

\* A variant of itemProcessor whose range ends when the channel is closed,
\* whatever it still holds.
DExitOnClose(w, d) ==
    /\ dpc[w][d] = "recv"
    /\ qclosed[w]
    /\ dpc' = [dpc EXCEPT ![w][d] = "done"]
    /\ UNCHANGED <<httpVars, storeVars, conf, cancelled, leaseVars, watchVars, itemQ, qclosed,
                   ditem, derr>>

\* A variant of itemProcessor that returns once the context is cancelled.
DExitOnCancel(w, d) ==
    /\ dpc[w][d] = "recv"
    /\ cancelled[w] \/ (itemQ[w] = <<>> /\ qclosed[w])
    /\ dpc' = [dpc EXCEPT ![w][d] = "done"]
    /\ UNCHANGED <<httpVars, storeVars, conf, cancelled, leaseVars, watchVars, itemQ, qclosed,
                   ditem, derr>>

\* itemProcessor, the range over the closed and empty channel ends: wg.Done().
DExit(w, d) ==
    /\ dpc[w][d] = "recv"
    /\ itemQ[w] = <<>>
    /\ qclosed[w]
    /\ dpc' = [dpc EXCEPT ![w][d] = "done"]
    /\ UNCHANGED <<httpVars, storeVars, conf, cancelled, leaseVars, watchVars, itemQ, qclosed,
                   ditem, derr>>

\* ------------------------------------------------------------ environment
\* The context handed to Start is cancelled.
Cancel(w) ==
    /\ conf[w].mayCancel
    /\ ~cancelled[w]
    /\ cancelled' = [cancelled EXCEPT ![w] = TRUE]
    /\ UNCHANGED <<httpVars, storeVars, conf, leaseVars, watchVars, itemQ, qclosed, dispVars>>

\* One unit of time passes: every lease is one tick closer to, or past, its end.
ClockTick ==
    /\ \E p \in Partitions : part[p].ttl >= 0
    /\ part' = [p \in Partitions |->
                   [part[p] EXCEPT !.ttl = IF part[p].ttl >= 0 THEN part[p].ttl - 1 ELSE -1]]
    /\ UNCHANGED <<httpVars, item, order, conf, cancelled, leaseVars, watchVars, itemQ, qclosed,
                   dispVars>>

Next ==
    \/ \E w \in Workers : AcquireQuery(w)
    \/ \E w \in Workers : AcquireSpawn(w)
    \/ \E w \in Workers : AcquireDone(w)
    \/ \E w \in Workers : AcquireClose(w)
    \/ \E w \in Workers : StartReturn(w)
    \/ \E w \in Workers, p \in Partitions : WFetch(w, p)
    \/ \E w \in Workers, p \in Partitions : WCounts(w, p)
    \/ \E w \in Workers, p \in Partitions : WSave(w, p)
    \/ \E w \in Workers, p \in Partitions : WEnqueue(w, p)
    \/ \E w \in Workers, p \in Partitions : WCancel(w, p)
    \/ \E w \in Workers, p \in Partitions : WExit(w, p)
    \/ \E w \in Workers, d \in Dispatchers : DProcess(w, d)
    \/ \E w \in Workers, d \in Dispatchers : DSave(w, d)
    \/ \E w \in Workers, d \in Dispatchers : DExit(w, d)
    \/ \E w \in Workers : Cancel(w)
    \/ ClockTick

\* ------------------------------------------------------------ initial state
\* An Item as its creator stores it: version 0, no retries, processed 0.
NewItem(id, status, gate, times, fail, next) ==
    [id |-> id, version |-> 0, gate |-> gate, status |-> status, retry |-> 0,
     errs |-> <<>>, data |-> [times |-> times, processed |-> 0, fail |-> fail, gate |-> next]]

\* A Partition as its creator stores it.
NewPartition(id, status, gate, owner, ttl) ==
    [id |-> id, version |-> 0, gate |-> gate, status |-> status, owner |-> owner,
     ttl |-> ttl]

\* The state in which every worker of `started` has set up its queue and its
\* dispatchers in Start and is about to run its first lease query, and every
\* other worker has returned from Start, over the given stored rows and worker
\* configurations.
InitWatchers(prows, irows, confs, started) ==
    /\ part \in prows
    /\ item \in irows
    /\ order = SetToSeq(Items)
    /\ conf \in confs
    /\ cancelled = [w \in Workers |-> w \notin started]
    /\ apc = [w \in Workers |-> IF w \in started THEN "select" ELSE "returned"]
    /\ pending = [w \in Workers |-> <<>>]
    /\ leases = [w \in Workers |-> {}]
    /\ wg = [w \in Workers |-> 0]
    /\ wpc = [w \in Workers |-> [p \in Partitions |-> "none"]]
    /\ pmem = [w \in Workers |-> [p \in Partitions |-> NoPartition]]
    /\ fetched = [w \in Workers |-> [p \in Partitions |-> <<>>]]
    /\ itemQ = [w \in Workers |-> <<>>]
    /\ qclosed = [w \in Workers |-> w \notin started]
    /\ dpc = [w \in Workers |->
                [d \in Dispatchers |-> IF w \in started THEN "recv" ELSE "done"]]
    /\ ditem = [w \in Workers |-> [d \in Dispatchers |-> NoItem]]
    /\ derr = [w \in Workers |-> [d \in Dispatchers |-> NoError]]

\* InitWatchers with the HTTP backend out of use.
InitWith(prows, irows, confs, started) ==
    /\ InitWatchers(prows, irows, confs, started)
    /\ hresp = NoResponse
    /\ hres = <<>>

\* Worker configurations: AutoClose and ManualCheckpoint as given for w1, w2
\* as TestWatcher's w2 (neither); `cancel` are the workers whose context can
\* be cancelled.
Conf(autoClose, manual, cancel) ==
    [w \in Workers |->
        [AutoClose |-> w = "w1" /\ autoClose,
         ManualCheckpoint |-> w = "w1" /\ manual,
         MaxRetries |-> MaxRetries,
         mayCancel |-> w \in cancel]]

\* The Items of TestWatcher's scenarios, with the thresholds scaled down.
\* (s5_owned, s7_owned) two Items at gate 0 that stay there.
Ready == [i \in Items |-> NewItem(i, Available, 0, IF i = "i1" THEN MaxTimes ELSE 1, FALSE, 0)]

\* (s14_gate, s15_gate) two Items at gate 0 that their first dispatch sends to gate 1.
Gated == [i \in Items |-> NewItem(i, Available, 0, IF i = "i1" THEN MaxTimes ELSE 1, FALSE, 1)]

\* (s12_gate, s13_gate_fail) as Gated, the second Item failing every dispatch.
GatedFail == [i \in Items |-> NewItem(i, Available, 0, MaxTimes, i = "i2", 1)]

\* (s2_fail) an Item stored Failed beside an Available one.
StoredFailed ==
    [i \in Items |-> NewItem(i, IF i = "i1" THEN Available ELSE Failed, 0, MaxTimes, FALSE, 0)]

\* (s3_done, s5_owned) an Item stored Complete beside an Available one that
\* waits at gate 1.
Waiting ==
    [i \in Items |->
        IF i = "i1" THEN NewItem(i, Available, 1, 1, FALSE, 1)
        ELSE NewItem(i, Complete, 0, MaxTimes, FALSE, 0)]

\* An Item at gate 0 and an Item that waits at gate 1.
Staged == [i \in Items |-> NewItem(i, Available, IF i = "i1" THEN 0 ELSE 1, 1, FALSE,
                                   IF i = "i1" THEN 0 ELSE 1)]

\* The Partitions of TestWatcher: unowned with the zero time as `until`
\* (p2_unowned), stored Failed (p1_unowned), stored Complete (p1_disabled) and
\* owned by another worker (p1_swap), here with a lease that is still running.
Unowned == [p \in Partitions |-> NewPartition(p, Available, 0, NoOwner, -1)]

UnownedFailed == [p \in Partitions |-> NewPartition(p, Failed, 0, NoOwner, -1)]

Disabled == [p \in Partitions |-> NewPartition(p, Complete, 0, NoOwner, -1)]

Swap == [p \in Partitions |-> NewPartition(p, Available, 0, "w2", LeaseDuration)]

\* A Partition that stands at gate 1 (an Item stored at gate 0 is below it).
Advanced == [p \in Partitions |-> NewPartition(p, Available, 1, NoOwner, -1)]

\* An Item at gate 1 that its first dispatch sends back to gate 0, beside an
\* Item created at gate 0.
Regress ==
    [i \in Items |->
        IF i = "i1" THEN NewItem(i, Available, 1, MaxTimes, FALSE, 0)
        ELSE NewItem(i, Available, 0, 1, FALSE, 0)]

\* One worker, w1, over every scenario; w2 has returned from Start.
Init ==
    \/ InitWith({Unowned, UnownedFailed, Swap}, {Ready, Gated, GatedFail, StoredFailed, Staged},
                {Conf(TRUE, FALSE, {"w1"})}, {"w1"})
    \/ InitWith({Unowned, Advanced}, {Ready, Gated, Waiting},
                {Conf(FALSE, FALSE, {"w1"}), Conf(TRUE, TRUE, {"w1"})}, {"w1"})
    \/ InitWith({Advanced}, {Ready, Regress}, {Conf(TRUE, FALSE, {"w1"})}, {"w1"})
    \/ InitWith({Disabled}, {Ready}, {Conf(TRUE, FALSE, {"w1"})}, {"w1"})

Spec == Init /\ [][Next]_vars

\* Two workers that contend for one Partition at gate 0 whose Available Item
\* waits at gate 1; the context of w2 can be cancelled.
InitTwo ==
    \/ InitWith({Unowned, Swap}, {Waiting}, {Conf(TRUE, FALSE, {"w2"})}, Workers)
    \/ InitWith({Disabled}, {Ready}, {Conf(TRUE, FALSE, {"w2"})}, Workers)

SpecTwo == InitTwo /\ [][Next]_vars

\* The runs in which rows reach a terminal status while copies of them are
\* still in memory: the two workers of InitTwo, and w1 alone over an Item that
\* fails every dispatch and over an Item stored Failed.
InitTerminal ==
    \/ InitTwo
    \/ InitWith({Unowned}, {GatedFail, StoredFailed}, {Conf(TRUE, FALSE, {"w1"})}, {"w1"})

SpecTerminal == InitTerminal /\ [][Next]_vars

\* ------------------------------------------------- a backend that may fail
\* The messages of the errors a backend returns.
Messages == {"a", "b"}

\* The errors Process may return: a plain error (retryable) or a
\* NonRetryableError, each with one of the messages.
Errors == {[err |-> TRUE, msg |-> m, noRetry |-> n] : m \in Messages, n \in BOOLEAN}

\* No Item is failed more often than this.
MaxFailures == MaxRetries + 2

\* The values of the package variable MaxRetries: -1 (retry for ever), 0 and up.
RetryCeilings == (-1) .. (MaxRetries + 1)

\* itemProcessor over a Processor that, on any call, answers as the test
\* backend does or returns one of Errors.
DProcessAny(w, d) ==
    /\ dpc[w][d] = "recv"
    /\ itemQ[w] # <<>>
    /\ itemQ' = [itemQ EXCEPT ![w] = Tail(itemQ[w])]
    /\ \E resp \in {Process(Head(itemQ[w]).data)}
                      \cup (IF Head(itemQ[w]).retry < MaxFailures THEN Errors ELSE {}) :
          /\ ditem' = [ditem EXCEPT ![w][d] =
                         ProcessItem(Head(itemQ[w]), resp, conf[w].MaxRetries)]
          /\ derr' = [derr EXCEPT ![w][d] = IF resp.err THEN resp ELSE NoError]
    /\ dpc' = [dpc EXCEPT ![w][d] = "save"]
    /\ UNCHANGED <<httpVars, storeVars, conf, cancelled, leaseVars, watchVars, qclosed>>

NextError ==
    \/ \E w \in Workers : AcquireQuery(w)
    \/ \E w \in Workers : AcquireSpawn(w)
    \/ \E w \in Workers : AcquireDone(w)
    \/ \E w \in Workers : AcquireClose(w)
    \/ \E w \in Workers : StartReturn(w)
    \/ \E w \in Workers, p \in Partitions : WFetch(w, p)
    \/ \E w \in Workers, p \in Partitions : WCounts(w, p)
    \/ \E w \in Workers, p \in Partitions : WSave(w, p)
    \/ \E w \in Workers, p \in Partitions : WEnqueue(w, p)
    \/ \E w \in Workers, p \in Partitions : WCancel(w, p)
    \/ \E w \in Workers, p \in Partitions : WExit(w, p)
    \/ \E w \in Workers, d \in Dispatchers : DProcessAny(w, d)
    \/ \E w \in Workers, d \in Dispatchers : DSave(w, d)
    \/ \E w \in Workers, d \in Dispatchers : DExit(w, d)
    \/ \E w \in Workers : Cancel(w)
    \/ ClockTick

\* The configuration of TestWatcher with MaxRetries set to max in w1.
ConfRetries(max) ==
    [Conf(TRUE, FALSE, {"w1"}) EXCEPT !["w1"].MaxRetries = max]

\* One Available Item at gate 0 that completes at its second success, beside
\* an Item stored Complete.
Lone ==
    [i \in Items |->
        IF i = "i1" THEN NewItem(i, Available, 0, MaxTimes, FALSE, 0)
        ELSE NewItem(i, Complete, 0, 1, FALSE, 0)]

\* One worker, w1, under each value of MaxRetries, over a backend that may
\* fail any dispatch.
InitError ==
    InitWith({Unowned}, {Lone}, {ConfRetries(m) : m \in RetryCeilings}, {"w1"})

SpecError == InitError /\ [][NextError]_vars

\* (s2_fail) every Item of the Partition is stored Failed.
AllFailed == [i \in Items |-> NewItem(i, Failed, 0, MaxTimes, FALSE, 0)]

\* Workers without AutoClose, as TestWatcher's w2, over an unowned Partition:
\* (p2_unowned) two of them over Items that are stored Failed, and one over
\* Items that are ready.
InitUnowned ==
    \/ InitWith({Unowned}, {AllFailed}, {Conf(FALSE, FALSE, Workers)}, Workers)
    \/ InitWith({Unowned}, {Ready}, {Conf(FALSE, FALSE, {"w1"})}, {"w1"})

SpecUnowned == InitUnowned /\ [][Next]_vars

\* ----------------------------------------- the watcher's exit in two steps
NextExit ==
    \/ \E w \in Workers : AcquireQuery(w)
    \/ \E w \in Workers : AcquireSpawn(w)
    \/ \E w \in Workers : AcquireDone(w)
    \/ \E w \in Workers : AcquireClose(w)
    \/ \E w \in Workers : StartReturn(w)
    \/ \E w \in Workers, p \in Partitions : WFetch(w, p)
    \/ \E w \in Workers, p \in Partitions : WCounts(w, p)
    \/ \E w \in Workers, p \in Partitions : WSave(w, p)
    \/ \E w \in Workers, p \in Partitions : WEnqueue(w, p)
    \/ \E w \in Workers, p \in Partitions : WCancel(w, p)
    \/ \E w \in Workers, p \in Partitions : WDelete(w, p)
    \/ \E w \in Workers : WDone(w)
    \/ \E w \in Workers, d \in Dispatchers : DProcess(w, d)
    \/ \E w \in Workers, d \in Dispatchers : DSave(w, d)
    \/ \E w \in Workers, d \in Dispatchers : DExit(w, d)
    \/ \E w \in Workers : Cancel(w)
    \/ ClockTick

\* One worker, w1, whose watchers exit and are started again: over Items that
\* are ready, with and without a Failed Item beside them.
InitExit ==
    InitWith({Unowned, Swap}, {Ready, StoredFailed}, {Conf(TRUE, FALSE, {"w1"})}, {"w1"})

SpecExit == InitExit /\ [][NextExit]_vars

\* ------------------------------------------------- the HTTP backend alone
\* Processor.Process is called with the answer of the backend.
HTTPCall ==
    /\ hres = <<>>
    /\ hres' = <<HTTPProcess(hresp)>>
    /\ UNCHANGED <<hresp, storeVars, conf, cancelled, leaseVars, watchVars, itemQ, qclosed,
                   dispVars>>

\* The backend answers the next call.
HTTPAnswer ==
    /\ hres # <<>>
    /\ hresp' \in Responses
    /\ hres' = <<>>
    /\ UNCHANGED <<storeVars, conf, cancelled, leaseVars, watchVars, itemQ, qclosed,
                   dispVars>>

NextHTTP == HTTPCall \/ HTTPAnswer

\* No worker runs; the backend has answered a call in any of the ways it can.
InitHTTP ==
    /\ InitWatchers({Disabled}, {AllFailed}, {Conf(FALSE, FALSE, {})}, {})
    /\ hresp \in Responses
    /\ hres = <<>>

SpecHTTP == InitHTTP /\ [][NextHTTP]_vars

\* Every worker with AutoClose on and ManualCheckpoint off; `cancel` as in Conf.
ConfAll(cancel) ==
    [w \in Workers |->
        [AutoClose |-> TRUE, ManualCheckpoint |-> FALSE, MaxRetries |-> MaxRetries,
         mayCancel |-> w \in cancel]]

\* (s3_done) every Item stored Complete.
Finished == [i \in Items |-> NewItem(i, Complete, 0, 1, FALSE, 0)]

\* The runs in which a backend that never fails is to finish every Partition:
\* w1 alone, with AutoClose, over Partitions that are unowned, stored Failed
\* or held by the expired or running lease of a worker that is gone, and Items
\* at or above the gate of their Partition; and w1 beside a w2 that runs with
\* or without AutoClose.
InitLive ==
    \/ InitWith({Unowned, UnownedFailed, Swap}, {Ready, Gated, Waiting, Staged},
                {Conf(TRUE, FALSE, {"w1"})}, {"w1"})
    \/ InitWith({Unowned, Swap}, {Finished}, {Conf(TRUE, FALSE, {}), ConfAll({})}, Workers)

\* The goroutines are scheduled fairly and time passes: the lease loop, every
\* watcher and every dispatcher takes its next step if that step stays
\* possible, and the clock keeps ticking.  Nothing forces a cancellation.
Fairness ==
    /\ WF_vars(ClockTick)
    /\ \A w \in Workers :
          WF_vars(AcquireQuery(w) \/ AcquireSpawn(w) \/ AcquireDone(w)
                     \/ AcquireClose(w) \/ StartReturn(w))
    /\ \A w \in Workers, p \in Partitions :
          WF_vars(WFetch(w, p) \/ WCounts(w, p) \/ WSave(w, p) \/ WEnqueue(w, p)
                     \/ WCancel(w, p) \/ WExit(w, p))
    /\ \A w \in Workers, d \in Dispatchers :
          WF_vars(DProcess(w, d) \/ DSave(w, d) \/ DExit(w, d))

SpecLive == InitLive /\ [][Next]_vars /\ Fairness

\* Two workers with AutoClose that contend for a Partition whose Available
\* Item waits at gate 1 (a larger run of the same fairness).
InitLiveTwo == InitWith({Unowned}, {Waiting}, {ConfAll({})}, Workers)

SpecLiveTwo == InitLiveTwo /\ [][Next]_vars /\ Fairness

\* ================================================================= claims
\* The steps the claims speak about, read off the positions of the goroutines.
\* A watcher runs its w.Save(ctx, p).
WSaveStep(w, p) == wpc[w][p] = "save" /\ wpc'[w][p] # "save"

\* The bool that Save of the watcher's Partition returns in the current state.
WSaveOk(w, p) == Save(Stamp(w, pmem[w][p]), part[p], cancelled[w]).ok

\* A dispatcher receives an Item and invokes Process on it.
DispatchStep(w, d) == dpc[w][d] = "recv" /\ dpc'[w][d] = "save"

\* A dispatcher runs its deferred w.Save(ctx, i).
DSaveStep(w, d) == dpc[w][d] = "save" /\ dpc'[w][d] = "recv"

\* The bool that Save of the dispatcher's Item returns in the current state.
DSaveOk(w, d) == Save(ditem[w][d], item[ditem[w][d].id], cancelled[w]).ok

\* The Items of Partition p.
ItemsOf(p) == {i \in Items : PartitionID(i) = p}

C2_EligibleAtProcess ==
    [][\A w \in Workers, d \in Dispatchers :
          DispatchStep(w, d) =>
             LET i == Head(itemQ[w]).id
                 p == PartitionID(i)
             IN  /\ item[i].status = Available
                 /\ part[p].status = Available
                 /\ item[i].gate = part[p].gate]_vars

\* C2 amended (dispatch eligibility at the enqueueing tick): the Items a
\* watcher goes on to enqueue were fetched Available at the gate that the
\* successful save of the same tick stores for their Partition, and that save
\* stores the Partition Available; the copy a dispatcher invokes Process on
\* is Available.  The stored rows are not read again at the dispatch.
C2_EligibleAtEnqueue ==
    [][/\ \A w \in Workers, p \in Partitions :
             (WSaveStep(w, p) /\ wpc'[w][p] = "enqueue") =>
                /\ part'[p].status = Available
                /\ part'[p].owner = w
                /\ \A k \in 1 .. Len(fetched[w][p]) :
                      /\ PartitionID(fetched[w][p][k].id) = p
                      /\ fetched[w][p][k].status = Available
                      /\ fetched[w][p][k].gate = part'[p].gate
       /\ \A w \in Workers, d \in Dispatchers :
             DispatchStep(w, d) => Head(itemQ[w]).status = Available]_vars

\* A copy waits in the queue while the stored Item is already Complete.
C2_Witness ==
    \E w \in Workers :
       /\ itemQ[w] # <<>>
       /\ item[Head(itemQ[w]).id].status = Complete
       /\ Head(itemQ[w]).status = Available

\* ---------------------------------------------------------------------- C3
\* C3 (stale-write rejection): a Save of a Partition or an Item whose version
\* in memory differs from the stored version leaves the stored row unchanged,
\* and the watcher whose Partition save it was exits.
C3_StaleWriteRejected ==
    [][/\ \A w \in Workers, p \in Partitions :
             (WSaveStep(w, p) /\ pmem[w][p].version # part[p].version) =>
                part'[p] = part[p] /\ wpc'[w][p] = "cleanup"
       /\ \A w \in Workers, d \in Dispatchers :
             (DSaveStep(w, d) /\ ditem[w][d].version # item[ditem[w][d].id].version) =>
                item' = item]_vars

\* A watcher that was not cancelled left its loop at a save of a copy that
\* another worker had overwritten.
C3_Witness ==
    \E w \in Workers, p \in Partitions :
       /\ wpc[w][p] = "cleanup"
       /\ ~cancelled[w]
       /\ pmem[w][p].status = Available
       /\ pmem[w][p].version < part[p].version
       /\ part[p].owner # w

\* ---------------------------------------------------------------------- C4
\* C4 (version on success): a Save that returns true on an entity at version
\* v leaves the version in memory and the stored version at v + 1.
C4_VersionOnSuccess ==
    [][/\ \A w \in Workers, p \in Partitions :
             (WSaveStep(w, p) /\ WSaveOk(w, p) /\ pmem[w][p].version < MaxVersion) =>
                /\ pmem'[w][p].version = pmem[w][p].version + 1
                /\ part'[p].version = pmem[w][p].version + 1
       /\ \A w \in Workers, d \in Dispatchers :
             (DSaveStep(w, d) /\ DSaveOk(w, d)) =>
                LET i == ditem[w][d]
                IN  /\ Save(i, item[i.id], cancelled[w]).mem.version = i.version + 1
                    /\ item'[i.id].version = i.version + 1]_vars

\* A watcher goes on after its second successful save.
C4_Witness ==
    \E w \in Workers, p \in Partitions :
       /\ wpc[w][p] \in {"poll", "enqueue"}
       /\ pmem[w][p].version = 2
       /\ part[p] = pmem[w][p]

\* ---------------------------------------------------------------------- C5
\* C5 (version on failure): a Save that returns false leaves the version the
\* entity has in memory as it was before the call.
C5_VersionOnFailure ==
    [][/\ \A w \in Workers, p \in Partitions :
             (WSaveStep(w, p) /\ ~WSaveOk(w, p) /\ pmem[w][p].version < MaxVersion) =>
                /\ pmem'[w][p].version = pmem[w][p].version
                /\ part'[p] = part[p]
       /\ \A w \in Workers, d \in Dispatchers :
             (DSaveStep(w, d) /\ ~DSaveOk(w, d)) =>
                LET i == ditem[w][d]
                IN  /\ Save(i, item[i.id], cancelled[w]).mem.version = i.version
                    /\ item' = item]_vars

\* A watcher holds, after a failed save, a copy that is older than the row.
C5_Witness ==
    \E w \in Workers, p \in Partitions :
       /\ wpc[w][p] = "cleanup"
       /\ pmem[w][p].owner = w
       /\ pmem[w][p].version + 1 = part[p].version

\* ---------------------------------------------------------------------- C6
\* An Item that was created Available: it is Available still, or was saved.
Counted(rows, i) == rows[i].status = Available \/ rows[i].version > 0

HasFailed(p) == \E i \in ItemsOf(p) : item[i].status = Failed

\* C7 as stated: once an Item of a Partition is stored Failed, every later
\* successful save of a watcher stores the Partition Failed, the stored gate
\* never increases again, and a tick whose counts show Failed > 0 enqueues
\* nothing.
C7_FailedAtEverySave ==
    [][/\ \A w \in Workers, p \in Partitions :
             (WSaveStep(w, p) /\ WSaveOk(w, p) /\ HasFailed(p)) =>
                part'[p].status = Failed
       /\ \A p \in Partitions : HasFailed(p) => part'[p].gate = part[p].gate
       /\ \A w \in Workers, p \in Partitions :
             (WSaveStep(w, p) /\ pmem[w][p].status = Failed) =>
                wpc'[w][p] = "cleanup" /\ itemQ' = itemQ]_vars

\* C7 amended: once an Item of a Partition is stored Failed, every tick that
\* reads its counts afterwards sets the status Failed and leaves the gate,
\* its save, if it succeeds, stores Failed, and it enqueues nothing; the
\* stored gate never increases again.  (A tick that read its counts before
\* the Item was stored Failed may still store the Partition Available.)
C7_FailedAtEveryTick ==
    [][/\ \A w \in Workers, p \in Partitions :
             (wpc[w][p] = "counts" /\ wpc'[w][p] = "save" /\ HasFailed(p)) =>
                /\ pmem'[w][p].status = Failed
                /\ pmem'[w][p].gate = pmem[w][p].gate
       /\ \A w \in Workers, p \in Partitions :
             (WSaveStep(w, p) /\ WSaveOk(w, p) /\ pmem[w][p].status = Failed) =>
                part'[p].status = Failed
       /\ \A p \in Partitions : HasFailed(p) => part'[p].gate = part[p].gate
       /\ \A w \in Workers, p \in Partitions :
             (WSaveStep(w, p) /\ pmem[w][p].status = Failed) =>
                wpc'[w][p] = "cleanup" /\ itemQ' = itemQ]_vars

\* A watcher stored the Partition Failed for an Item that ran out of retries
\* while another Item was still Available.
C7_Witness ==
    \E p \in Partitions :
       /\ part[p].status = Failed
       /\ part[p].version > 0
       /\ \E i \in ItemsOf(p) : item[i].status = Failed /\ item[i].retry > MaxRetries
       /\ \E i \in ItemsOf(p) : item[i].status = Available

\* ---------------------------------------------------------------------- C8
\* A lease query answers w with rows, none of them Complete.
QueryExcludesComplete(w) ==
    (apc[w] = "select" /\ apc'[w] = "spawn") =>
       \A k \in 1 .. Len(pending'[w]) :
          /\ pending'[w][k].status # Complete
          /\ part[pending'[w][k].id].status # Complete

\* No Available Item of a Partition stored Complete is dispatched.
NoDispatchOfComplete(w, d) ==
    DispatchStep(w, d) =>
       LET i == Head(itemQ[w]).id
       IN  part[PartitionID(i)].status = Complete => item[i].status # Available

\* C8 as stated: a Partition stored Complete is never returned by
\* GetPotentialLeases, no worker ever starts a watcher for it, and its
\* Available Items are never dispatched.
C8_NoWatcherForComplete ==
    [][/\ \A w \in Workers : QueryExcludesComplete(w)
       /\ \A w \in Workers, p \in Partitions :
             (wpc[w][p] = "none" /\ wpc'[w][p] # "none") => part[p].status # Complete
       /\ \A w \in Workers, d \in Dispatchers : NoDispatchOfComplete(w, d)]_vars

\* C8 amended: a Partition stored Complete is never returned by
\* GetPotentialLeases, its Available Items are never dispatched, and no
\* watcher saves it: a watcher that a worker starts for it from a lease query
\* answered before it was stored Complete exits at its save, and the stored
\* status, gate, owner and version stay as they are.
C8_CompleteNotLeased ==
    [][/\ \A w \in Workers : QueryExcludesComplete(w)
       /\ \A w \in Workers, p \in Partitions :
             (WSaveStep(w, p) /\ part[p].status = Complete) => wpc'[w][p] = "cleanup"
       /\ \A p \in Partitions :
             part[p].status = Complete =>
                /\ part'[p].status = Complete
                /\ part'[p].gate = part[p].gate
                /\ part'[p].owner = part[p].owner
                /\ part'[p].version = part[p].version
       /\ \A w \in Workers, d \in Dispatchers : NoDispatchOfComplete(w, d)]_vars

\* A watcher runs on a copy that is not Complete while the Partition is
\* stored Complete.
C8_Witness ==
    \E w \in Workers, p \in Partitions :
       /\ part[p].status = Complete
       /\ wpc[w][p] \in {"poll", "counts", "save"}
       /\ pmem[w][p].status = Available

\* ---------------------------------------------------------------------- C9
\* Every Item and every Partition is stored Complete.
AllComplete ==
    /\ \A p \in Partitions : part[p].status = Complete
    /\ \A i \in Items : item[i].status = Complete

\* Every worker that runs has AutoClose on and ManualCheckpoint off.
AllAutoClose ==
    \A w \in Workers :
       apc[w] # "returned" => conf[w].AutoClose /\ ~conf[w].ManualCheckpoint

ShutdownOrder(w) ==
    /\ apc[w] \in {"wait", "drain", "returned"} => cancelled[w] /\ pending[w] = <<>>
    /\ qclosed[w] =>
          /\ apc[w] \in {"drain", "returned"}
          /\ wg[w] = 0
          /\ \A p \in Partitions : wpc[w][p] = "none"
    /\ \A d \in Dispatchers : dpc[w][d] = "done" => qclosed[w] /\ itemQ[w] = <<>>
    /\ apc[w] = "returned" => \A d \in Dispatchers : dpc[w][d] = "done"

\* No watcher sends on the closed channel.
NoEnqueueAfterClose(w) == itemQ'[w] # itemQ[w] /\ Len(itemQ'[w]) > Len(itemQ[w]) => ~qclosed[w]

\* C10 as stated: after the cancellation no new watcher is started, then
\* all watchers exit, only then the queue is closed, then the dispatchers
\* drain it and exit, only then Start returns; no watcher enqueues after the
\* queue was closed.
C10_NoWatcherAfterCancel ==
    [][\A w \in Workers :
          /\ \A p \in Partitions :
                (wpc[w][p] = "none" /\ wpc'[w][p] # "none") => ~cancelled[w]
          /\ ShutdownOrder(w)'
          /\ NoEnqueueAfterClose(w)]_vars

\* C10 amended: after the cancellation no lease query is answered and no
\* watcher fetches or saves (a watcher started from a query answered before
\* the cancellation exits at its first repository call); all watchers exit,
\* only then the queue is closed, then the dispatchers drain it and exit,
\* only then Start returns; no watcher enqueues after the queue was closed.
C10_ShutdownOrder ==
    [][\A w \in Workers :
          /\ (apc[w] = "select" /\ apc'[w] = "spawn") => ~cancelled[w]
          /\ \A p \in Partitions :
                /\ (cancelled[w] /\ wpc[w][p] \in {"poll", "counts"}
                      /\ wpc'[w][p] # wpc[w][p]) => wpc'[w][p] = "cleanup"
                /\ (cancelled[w] /\ WSaveStep(w, p)) =>
                      /\ part'[p] = Rebase(pmem[w][p], part[p])
                      /\ wpc'[w][p] = "cleanup"
          /\ ShutdownOrder(w)'
          /\ NoEnqueueAfterClose(w)]_vars

\* Start of w1 has returned after the worker leased the Partition and saved
\* an Item.
C10_Witness ==
    /\ apc["w1"] = "returned"
    /\ \E p \in Partitions : part[p].owner = "w1"
    /\ \E i \in Items : item[i].version > 0

\* ------------------------------------------------------------------ C11
\* The queue of w loses an Item only to a dispatcher, which takes its head
\* into processItem.
DequeuedToProcess(w) ==
    itemQ'[w] # itemQ[w] /\ Len(itemQ'[w]) <= Len(itemQ[w]) =>
        /\ itemQ'[w] = Tail(itemQ[w])
        /\ \E d \in Dispatchers :
              /\ DispatchStep(w, d)
              /\ ditem'[w][d].id = Head(itemQ[w]).id

\* A dispatcher of w leaves processItem only through the deferred Save of the
\* Item it holds.
LeavesBySave(w, d) ==
    dpc[w][d] = "save" /\ dpc'[w][d] # "save" =>
        /\ dpc'[w][d] = "recv"
        /\ ditem[w][d] # NoItem
        /\ item' = [item EXCEPT ![ditem[w][d].id] =
                       Save(ditem[w][d], item[ditem[w][d].id], cancelled[w]).row]

\* Once Start of w has returned its queue is empty and no dispatcher holds
\* an Item.
NothingLeftBehind(w) ==
    apc[w] = "returned" =>
        /\ itemQ[w] = <<>>
        /\ \A d \in Dispatchers : dpc[w][d] = "done" /\ ditem[w][d] = NoItem

\* C11: no Item is lost in the queue: an Item leaves the queue only by
\* being dequeued into processItem, a dispatcher leaves processItem only
\* through the final Save of its Item, and when Start has returned the queue
\* is empty and no Item is in flight.
C11_NoItemLostInQueue ==
    [][\A w \in Workers :
          /\ DequeuedToProcess(w)
          /\ \A d \in Dispatchers : LeavesBySave(w, d)
          /\ NothingLeftBehind(w)']_vars

\* The queue of w1 was closed while it held an Item and a dispatcher was in
\* processItem with another.
C11_Witness ==
    /\ qclosed["w1"]
    /\ itemQ["w1"] # <<>>
    /\ \E d \in Dispatchers : dpc["w1"][d] = "save" /\ ditem["w1"][d] # NoItem

NonRetryable(w, d) == derr[w][d].err /\ derr[w][d].noRetry

\* C13 as stated: the Save that follows a dispatch failed by a non-retryable
\* error leaves the Item stored Failed, whatever its retry_count and
\* MaxRetries.
C13_NonRetryableStoredFailed ==
    [][\A w \in Workers, d \in Dispatchers :
          DSaveStep(w, d) /\ NonRetryable(w, d) =>
              item'[ditem[w][d].id].status = Failed]_vars

\* C13 amended: a dispatch failed by a non-retryable error leaves the
\* dispatcher's Item Failed, whatever its retry_count and MaxRetries; the
\* Save that follows stores it Failed when it succeeds and leaves the stored
\* row as it was when it fails (stale copy, context done).
C13_NonRetryableFailsCopy ==
    [][\A w \in Workers, d \in Dispatchers :
          /\ DispatchStep(w, d) /\ NonRetryable(w, d)' =>
                ditem'[w][d].status = Failed
          /\ DSaveStep(w, d) /\ NonRetryable(w, d) =>
                /\ ditem[w][d].status = Failed
                /\ IF DSaveOk(w, d)
                   THEN item'[ditem[w][d].id].status = Failed
                   ELSE item' = item]_vars

\* An Item is stored Failed after its first failure under MaxRetries = -1.
C13_Witness ==
    /\ conf["w1"].MaxRetries = -1
    /\ \E i \in Items : item[i].status = Failed /\ item[i].retry = 1

\* ------------------------------------------------------------------ C14
\* The dispatcher holds an Item whose Process returned a retryable error.
Retryable(w, d) == derr[w][d].err /\ ~derr[w][d].noRetry

\* C14 (retry ceiling): a dispatch failed by a retryable error leaves the
\* Item Failed exactly when MaxRetries >= 0 and the incremented retry_count
\* exceeds MaxRetries, and Available otherwise, and a successful Save stores
\* it so; hence with MaxRetries = M >= 0 the stored Item stays Available
\* through M stored failures and is Failed by the next, and with
\* MaxRetries = -1 no retryable failure fails an Item.
C14_RetryCeiling ==
    [][\A w \in Workers :
          LET max == conf[w].MaxRetries
          IN  /\ \A d \in Dispatchers :
                    DispatchStep(w, d) /\ Retryable(w, d)' =>
                        /\ ditem'[w][d].retry = Head(itemQ[w]).retry + 1
                        /\ ditem'[w][d].status =
                              IF max >= 0 /\ ditem'[w][d].retry > max
                              THEN Failed ELSE Available
              /\ \A d \in Dispatchers :
                    DSaveStep(w, d) /\ DSaveOk(w, d) /\ Retryable(w, d) =>
                        LET id == ditem[w][d].id
                        IN  /\ item'[id].retry = item[id].retry + 1
                            /\ item'[id].status =
                                  IF max >= 0 /\ item[id].retry + 1 > max
                                  THEN Failed ELSE Available]_vars

\* Under MaxRetries = 1 an Item with one stored failure fails again, by a
\* retryable error, and the dispatcher holds it Failed with retry_count 2.
C14_Witness ==
    /\ conf["w1"].MaxRetries = MaxRetries
    /\ \E d \in Dispatchers :
          /\ Retryable("w1", d)
          /\ ditem["w1"][d].status = Failed
          /\ ditem["w1"][d].retry = MaxRetries + 1
          /\ item[ditem["w1"][d].id].retry = MaxRetries
          /\ item[ditem["w1"][d].id].status = Available

\* ------------------------------------------------------------------ C15
\* C15: retry_count never decreases, in the dispatcher's copy or in the
\* store: a dispatch leaves the count of its Item as it was when Process
\* succeeded and raises it by exactly 1 when Process returned an error, and a
\* stored count changes only by the successful Save of a failed dispatch,
\* which raises it by exactly 1.
C15_RetryMonotone ==
    [][/\ \A w \in Workers, d \in Dispatchers :
             DispatchStep(w, d) =>
                 ditem'[w][d].retry =
                     Head(itemQ[w]).retry + (IF derr'[w][d].err THEN 1 ELSE 0)
       /\ \A i \in Items :
             /\ item'[i].retry >= item[i].retry
             /\ item'[i].retry # item[i].retry =>
                   /\ item'[i].retry = item[i].retry + 1
                   /\ \E w \in Workers, d \in Dispatchers :
                         /\ DSaveStep(w, d) /\ DSaveOk(w, d)
                         /\ ditem[w][d].id = i
                         /\ derr[w][d].err]_vars

\* An Item with a stored failure went through a successful dispatch, whose
\* Save stored the higher `processed` beside the same retry_count.
C15_Witness ==
    \E i \in Items :
        /\ item[i].retry > 0
        /\ item[i].data.processed > 0
        /\ item[i].status = Available
        /\ \E w \in Workers, d \in Dispatchers :
              /\ dpc[w][d] = "save" /\ derr[w][d].err
              /\ ditem[w][d].id = i
              /\ ditem[w][d].retry = item[i].retry + 1

\* ------------------------------------------------------------------ C16
\* No two adjacent lines of the error_messages of i are equal.
NoAdjacentRepeat(i) ==
    \A k \in 1 .. (Len(i.errs) - 1) : i.errs[k] # i.errs[k + 1]

\* C16 as stated: error_messages never holds two equal adjacent lines, in a
\* stored Item or in the Item a dispatcher holds (failures a, b, b record a
\* and b once each).
C16_NoAdjacentRepeat ==
    /\ \A i \in Items : NoAdjacentRepeat(item[i])
    /\ \A w \in Workers, d \in Dispatchers : NoAdjacentRepeat(ditem[w][d])

\* An Item failed with the messages a, b, b is stored with the lines a, b, b.
C16_Witness ==
    \E i \in Items : item[i].errs = <<"a", "b", "b">> /\ item[i].retry = 3

\* ------------------------------------------------------------------ C17
\* Item i is stored Available with a gate lower than the stored gate of its
\* Partition.
Below(i) ==
    item[i].status = Available /\ item[i].gate < part[PartitionID(i)].gate

\* A save that stores Partition p Complete stores it while no Item of p is
\* Available below its gate.
NoCompleteOverBelow(p) ==
    part[p].status # Complete /\ part'[p].status = Complete =>
        \A i \in ItemsOf(p) : ~Below(i)'

\* C17 as stated: under ManualCheckpoint = false an Available Item whose gate
\* is lower than the stored gate of its Partition is never dispatched, and
\* while such an Item exists the Partition is never stored Complete.
C17_BelowNeverDispatched ==
    [][/\ \A w \in Workers, d \in Dispatchers :
             ~conf[w].ManualCheckpoint /\ DispatchStep(w, d) =>
                 ~Below(Head(itemQ[w]).id)
       /\ \A p \in Partitions : NoCompleteOverBelow(p)]_vars

\* C17 amended: under ManualCheckpoint = false a watcher whose gate is the
\* stored gate never fetches an Available Item that is below the stored gate;
\* such an Item is dispatched only from a stale copy, fetched before the Item
\* moved below the gate, and no Save of a dispatcher succeeds for it; while
\* such an Item exists the Partition is never stored Complete.
C17_BelowOnlyStaleCopies ==
    [][/\ \A w \in Workers :
             ~conf[w].ManualCheckpoint =>
                 /\ \A p \in Partitions :
                       (wpc[w][p] = "poll" /\ wpc'[w][p] = "counts"
                           /\ pmem[w][p].gate = part[p].gate) =>
                          \A k \in 1 .. Len(fetched'[w][p]) : ~Below(fetched'[w][p][k].id)
                 /\ \A d \in Dispatchers :
                       /\ (DispatchStep(w, d) /\ Below(Head(itemQ[w]).id)) =>
                             Head(itemQ[w]).version # item[Head(itemQ[w]).id].version
                       /\ (DSaveStep(w, d) /\ Below(ditem[w][d].id)) => ~DSaveOk(w, d)
       /\ \A p \in Partitions : NoCompleteOverBelow(p)]_vars

\* Under ManualCheckpoint = false the worker has raised the gate of its
\* Partition to MaxGate over an Item that is still as it was created, below
\* the gate.
C17_Witness ==
    /\ ~conf["w1"].ManualCheckpoint
    /\ \E i \in Items :
          /\ Below(i) /\ item[i].version = 0
          /\ part[PartitionID(i)].owner = "w1"
          /\ part[PartitionID(i)].gate = MaxGate

\* ------------------------------------------------------------------ C18
\* The watcher of w for p reads the counts and settles the status and gate of
\* its tick.
WCountsStep(w, p) == wpc[w][p] = "counts" /\ wpc'[w][p] = "save"

C19_ManualCheckpointKeepsGate ==
    [][\A w \in Workers, p \in Partitions :
          conf[w].ManualCheckpoint =>
              /\ (wpc[w][p] \notin {"none", "cleanup"} /\ wpc'[w][p] # "none") =>
                    pmem'[w][p].gate = pmem[w][p].gate
              /\ (wpc[w][p] # "none" /\ wpc'[w][p] # wpc[w][p]) =>
                    part'[p].gate = part[p].gate]_vars

\* Under ManualCheckpoint = true a tick fetched nothing at gate 0 while an
\* Item is Available at gate 1, and saved: the Partition is stored at gate 0
\* and the watcher goes on.
C19_Witness ==
    \E p \in Partitions :
        /\ conf["w1"].ManualCheckpoint
        /\ wpc["w1"][p] = "poll"
        /\ part[p].owner = "w1" /\ part[p].version > 0
        /\ part[p].gate = 0 /\ pmem["w1"][p].gate = 0
        /\ \E i \in ItemsOf(p) : item[i].status = Available /\ item[i].gate = 1
        /\ \A i \in ItemsOf(p) : item[i].status = Available => item[i].gate = 1

\* ------------------------------------------------------------------ C20
\* C20 (owner stamping): every successful save of a watcher of w stores its
\* Partition with owner w and with `until` LeaseDuration after the time of
\* the tick, whoever held the lease before; the stored owner changes in no
\* other step, so it is the worker whose save succeeded last.
C20_OwnerStamp ==
    [][\A p \in Partitions :
          /\ \A w \in Workers :
                WSaveStep(w, p) /\ WSaveOk(w, p) =>
                    part'[p].owner = w /\ part'[p].ttl = LeaseDuration
          /\ part'[p].owner # part[p].owner =>
                \E w \in Workers :
                    WSaveStep(w, p) /\ WSaveOk(w, p) /\ part'[p].owner = w]_vars

\* w1 saved its Partition and its watcher goes on; the lease ran out and w2
\* took the Partition over: the stored owner is w2.
C20_Witness ==
    \E p \in Partitions :
        /\ wpc["w1"][p] \in {"poll", "counts", "save", "enqueue"}
        /\ pmem["w1"][p].owner = "w1"
        /\ part[p].owner = "w2"
        /\ wpc["w2"][p] \in {"poll", "counts", "save", "enqueue"}
        /\ pmem["w2"][p] = part[p]

\* ------------------------------------------------------------------ C21
\* Some worker has leased Partition p and saved it from a tick.
Watched(p) == part[p].owner # NoOwner

\* Every worker has returned from Start.
AllReturned == \A w \in Workers : apc[w] = "returned"

\* C21 as stated (scenario p2_unowned): once workers without AutoClose have
\* leased and watched the unowned Partition whose Items are stored Failed
\* and have returned, the Partition is stored Available and the Items are as
\* they were created.
C21_FinalAvailable ==
    [][item = AllFailed =>
          /\ item' = AllFailed
          /\ \A p \in Partitions :
                (AllReturned /\ Watched(p))' => part'[p].status = Available]_vars

\* C21 amended: in that scenario the Partition is stored Failed from the
\* first successful save of a watcher on, so also when the workers have
\* returned, and the Items are as they were created.
C21_FinalFailed ==
    [][item = AllFailed =>
          /\ item' = AllFailed
          /\ \A p \in Partitions : Watched(p)' => part'[p].status = Failed]_vars

\* The workers have returned after one of them leased and watched the
\* Partition, which is stored Failed.
C21_Witness ==
    /\ item = AllFailed
    /\ AllReturned
    /\ \E p \in Partitions : Watched(p) /\ part[p].status = Failed

C23_HTTPOutcome ==
    hres # <<>> /\ hresp.posted =>
        LET r == hresp
            out == hres[1]
        IN  IF ~r.decodable THEN out.err /\ IsRetryable(out)
            ELSE IF r.error.present
            THEN /\ out.err
                 /\ out.msg = "Status " \o Status(r.code) \o "; message: " \o r.error.message
                 /\ ~IsRetryable(out) <=> r.error.noRetry
            ELSE IF r.code \notin 200 .. 299
            THEN out.err /\ IsRetryable(out) /\ out.msg = Status(r.code)
            ELSE /\ ~out.err
                 /\ out.NextGate = (IF r.gate.present THEN r.gate.val ELSE 0)
                 /\ out.Complete = (IF r.complete.present THEN r.complete.val ELSE FALSE)

\* The backend answered 200 with an envelope whose error has no_retry set,
\* and Process returned a non-retryable error.
C23_Witness ==
    /\ hres # <<>>
    /\ hresp.posted /\ hresp.decodable /\ hresp.code = 200
    /\ hresp.error.present /\ hresp.error.noRetry /\ hresp.gate.present
    /\ hres[1].err /\ ~IsRetryable(hres[1])

\* ------------------------------------------------------------------ C24
\* C24 (enqueue gating): a watcher comes to enqueue the Items of a tick only
\* from the save of that tick, when the save returned true and the saved
\* Partition is Active; when the save returns false or the saved Partition is
\* not Active, and when the fetch or the count query fails, the watcher goes
\* to its exit and the queue gets none of the fetched Items; the queue grows
\* only by the send of a watcher that is enqueuing.
C24_EnqueueGating ==
    [][\A w \in Workers :
          /\ \A p \in Partitions :
                /\ (wpc[w][p] # "enqueue" /\ wpc'[w][p] = "enqueue") =>
                      /\ WSaveStep(w, p) /\ WSaveOk(w, p)
                      /\ Active(pmem'[w][p])
                      /\ part'[p] = pmem'[w][p]
                /\ (WSaveStep(w, p) /\ (~WSaveOk(w, p) \/ ~Active(pmem'[w][p]))) =>
                      wpc'[w][p] = "cleanup" /\ itemQ'[w] = itemQ[w]
                /\ (wpc[w][p] \in {"poll", "counts"} /\ wpc'[w][p] = "cleanup") =>
                      itemQ'[w] = itemQ[w]
                /\ wpc[w][p] = "cleanup" => wpc'[w][p] \in {"cleanup", "none"}
          /\ Len(itemQ'[w]) > Len(itemQ[w]) =>
                \E p \in Partitions :
                    /\ wpc[w][p] = "enqueue"
                    /\ itemQ'[w] = Append(itemQ[w], Head(fetched[w][p]))]_vars

\* A tick of w1 fetched an Item, found a Failed Item in the counts and saved
\* the Partition Failed: the watcher is at its exit with the fetched Item,
\* and the queue is empty.
C24_Witness ==
    \E p \in Partitions :
        /\ wpc["w1"][p] = "cleanup"
        /\ fetched["w1"][p] # <<>>
        /\ part[p].status = Failed /\ part[p].owner = "w1"
        /\ itemQ["w1"] = <<>>

\* ------------------------------------------------------------------ C25
\* The lease loop of w starts a watcher.
SpawnStep(w) == wg'[w] > wg[w]

\* C25: within one worker at most one watcher runs for a Partition id: the
\* lease loop starts a watcher for an id only when the leases map does not
\* hold it and no watcher of the worker is running for it, a pass that finds
\* the id in the map starts nothing, and the id of every running watcher is
\* in the map.  (A goroutine that has deleted its id has only wg.Done() left.)
C25_OneWatcherPerPartition ==
    [][\A w \in Workers :
          /\ \A p \in Partitions :
                /\ (SpawnStep(w) /\ wpc'[w][p] # wpc[w][p]) =>
                      /\ p \notin leases[w]
                      /\ wpc[w][p] = "none"
                      /\ wg'[w] = wg[w] + 1
                /\ wpc'[w][p] # "none" => p \in leases'[w]
          /\ (apc[w] = "spawn" /\ pending'[w] = Tail(pending[w])
                 /\ Head(pending[w]).id \in leases[w]) =>
                /\ ~SpawnStep(w)
                /\ wpc'[w] = wpc[w] /\ pmem'[w] = pmem[w] /\ leases'[w] = leases[w]]_vars

\* The lease loop of w1 is about to visit a row whose id the leases map
\* holds, its watcher being at work, while an earlier watcher goroutine has
\* yet to call wg.Done().
C25_Witness ==
    /\ apc["w1"] = "spawn"
    /\ Head(pending["w1"]).id \in leases["w1"]
    /\ wpc["w1"][Head(pending["w1"]).id] \in {"poll", "counts", "save", "enqueue"}
    /\ Exiting("w1") > 0

\* ------------------------------------------------------------------ C26
\* C26 (lease-map cleanup): the leases map of a worker holds exactly the ids
\* of its running watchers; a watcher ends only through its deferred exit,
\* whatever sent it there, and that removes its id and leaves wg.Done() to a
\* later step, so the id is gone before the watcher is counted as finished
\* and a later pass of the lease loop can start a watcher for it again.
C26_LeaseMapCleanup ==
    [][\A w \in Workers :
          /\ leases'[w] = {p \in Partitions : wpc'[w][p] # "none"}
          /\ \A p \in Partitions :
                (wpc[w][p] # "none" /\ wpc'[w][p] = "none") =>
                    /\ wpc[w][p] = "cleanup"
                    /\ p \notin leases'[w]
                    /\ wg'[w] = wg[w]
          /\ wg'[w] < wg[w] =>
                /\ Exiting(w) > 0
                /\ wg'[w] = wg[w] - 1
                /\ leases'[w] = leases[w] /\ wpc'[w] = wpc[w]]_vars

\* A watcher of w1 saved its Partition Failed and exited; before it called
\* wg.Done() the lease loop has started a new watcher for the Partition.
C26_Witness ==
    \E p \in Partitions :
        /\ Exiting("w1") > 0
        /\ p \in leases["w1"]
        /\ wpc["w1"][p] = "poll"
        /\ part[p].status = Failed /\ part[p].owner = "w1"
        /\ pmem["w1"][p] = part[p]

\* ------------------------------------------------------------------ C27
\* No Item of p is Failed, an Item of p is Available, and every Available
\* Item of p stands at a gate below g.
RunawayAt(p, g) ==
    /\ \A i \in ItemsOf(p) : item[i].status # Failed
    /\ \E i \in ItemsOf(p) : item[i].status = Available
    /\ \A i \in ItemsOf(p) : item[i].status = Available => item[i].gate < g

\* No Item is on its way to a dispatcher or in one.
Quiet ==
    \A w \in Workers :
        /\ itemQ[w] = <<>>
        /\ \A p \in Partitions : fetched[w][p] = <<>>
        /\ \A d \in Dispatchers : dpc[w][d] # "save"

\* C27 (runaway gate): with ManualCheckpoint off, while no Item of the
\* Partition is Failed and its Available Items all stand below the gate of
\* the watcher's Partition, the fetch of a tick returns nothing, the tick
\* raises the gate by one and stays Available, and its successful save stores
\* the raised gate; with no Item in flight the store stays in that condition
\* at the raised gate, so the next tick raises the gate again.
C27_RunawayGate ==
    [][\A w \in Workers, p \in Partitions :
          /\ (~conf[w].ManualCheckpoint /\ RunawayAt(p, pmem[w][p].gate)) =>
                /\ (wpc[w][p] = "poll" /\ wpc'[w][p] = "counts") =>
                       fetched'[w][p] = <<>>
                /\ (WCountsStep(w, p) /\ fetched[w][p] = <<>>) =>
                       /\ pmem'[w][p].gate = pmem[w][p].gate + 1
                       /\ pmem'[w][p].status = Available
                /\ (WSaveStep(w, p) /\ WSaveOk(w, p)) =>
                       /\ part'[p].gate = pmem[w][p].gate
                       /\ part'[p].status = pmem[w][p].status
                       /\ fetched[w][p] = <<>> /\ pmem[w][p].status = Available =>
                              wpc'[w][p] = "poll"
          /\ (RunawayAt(p, part[p].gate) /\ Quiet) =>
                (RunawayAt(p, part[p].gate))']_vars

\* A watcher without ManualCheckpoint found its Partition at gate 1 over
\* Available Items at gate 0, raised the gate, stored it, and its next tick
\* has fetched nothing again and is about to read the counts.
C27_Witness ==
    \E p \in Partitions :
        /\ ~conf["w1"].ManualCheckpoint
        /\ part[p].owner = "w1"
        /\ part[p].gate = MaxGate /\ pmem["w1"][p].gate = MaxGate
        /\ RunawayAt(p, 1)
        /\ wpc["w1"][p] = "counts"
        /\ fetched["w1"][p] = <<>>
        /\ ~cancelled["w1"]

\* ------------------------------------------------------------------ C28
\* C28 as stated: a watcher that stands in the loop that sends its fetched
\* Items when the context is cancelled sends no further Item: it leaves for
\* its exit with the queue as it is.
C28_CancelStopsEnqueue ==
    [][\A w \in Workers, p \in Partitions :
          (cancelled[w] /\ wpc[w][p] = "enqueue") =>
              /\ Len(itemQ'[w]) <= Len(itemQ[w])
              /\ wpc'[w][p] \in {"enqueue", "cleanup"}]_vars

\* The context of w1 is cancelled while its watcher is blocked in the send
\* on a full queue, with fetched Items still to send.
C28_Witness ==
    \E p \in Partitions :
        /\ cancelled["w1"]
        /\ wpc["w1"][p] = "enqueue"
        /\ fetched["w1"][p] # <<>>
        /\ Len(itemQ["w1"]) = BatchSize

\* ------------------------------------------------------------------ C29
\* The copy of Partition p that row is, is behind the stored row.
Stale(row, p) == row.version < part[p].version

\* C29 (the gate is serialized by the version): a step leaves the stored
\* gate of a Partition or raises it by 1, and only the successful save of a
\* watcher raises it; when a save raises it, every other copy of the row read
\* at the same version, in a running watcher or in the rows a lease loop has
\* yet to visit, is stale afterwards and a save of it would fail; a stale
\* copy of a running watcher stays stale.
C29_GateSerialized ==
    [][\A p \in Partitions :
          /\ part'[p].gate \in {part[p].gate, part[p].gate + 1}
          /\ part'[p].gate # part[p].gate =>
                \E w \in Workers :
                    /\ WSaveStep(w, p) /\ WSaveOk(w, p)
                    /\ pmem[w][p].gate = part[p].gate + 1
                    /\ \A v \in Workers \ {w} :
                          (wpc[v][p] # "none"
                              /\ pmem[v][p].version = pmem[w][p].version) =>
                             /\ Stale(pmem[v][p], p)'
                             /\ ~Save(Stamp(v, pmem'[v][p]), part'[p], cancelled'[v]).ok
                    /\ \A v \in Workers : \A k \in 1 .. Len(pending[v]) :
                          (pending[v][k].id = p
                              /\ pending[v][k].version = pmem[w][p].version) =>
                             Stale(pending[v][k], p)'
          /\ \A v \in Workers :
                (wpc[v][p] # "none" /\ wpc'[v][p] # "none" /\ Stale(pmem[v][p], p)) =>
                    Stale(pmem[v][p], p)']_vars

\* Two workers read the Partition at gate 0 and at the same version and both
\* raised the gate in memory; w1 has stored gate 1, and w2 stands before its
\* save with a copy that is now stale.
C29_Witness ==
    \E p \in Partitions :
        /\ part[p].gate = 1 /\ part[p].owner = "w1"
        /\ wpc["w1"][p] # "none" /\ pmem["w1"][p].gate = 1
        /\ wpc["w2"][p] = "save" /\ pmem["w2"][p].gate = 1
        /\ pmem["w2"][p].version < part[p].version
        /\ ~cancelled["w2"]

\* ------------------------------------------------------------------ C30
\* A status a row does not leave.
Terminal(st) == st \in {Complete, Failed}

\* C30 (terminal rows): no step changes a stored Item whose status is
\* Complete or Failed, and no step changes a stored Partition whose status is
\* Complete (its `until` stays where it is, so its distance to the clock only
\* shrinks); the saves of such rows that watchers and dispatchers attempt
\* from copies in memory return false.
C30_TerminalRowsImmutable ==
    [][/\ \A i \in Items : Terminal(item[i].status) => item'[i] = item[i]
       /\ \A p \in Partitions :
             part[p].status = Complete =>
                 /\ part'[p] = [part[p] EXCEPT !.ttl = part'[p].ttl]
                 /\ part'[p].ttl <= part[p].ttl
                 /\ \A w \in Workers : WSaveStep(w, p) =>
                        part'[p] = part[p] /\ ~WSaveOk(w, p)
       /\ \A w \in Workers, d \in Dispatchers :
             (DSaveStep(w, d) /\ Terminal(item[ditem[w][d].id].status)) =>
                 ~DSaveOk(w, d) /\ item' = item /\ order' = order]_vars

\* An Item is stored Complete by a dispatch, and a dispatcher is about to
\* save a copy of it that was fetched before, changed by its own dispatch.
C30_Witness ==
    \E w \in Workers, d \in Dispatchers :
        LET i == ditem[w][d]
        IN  /\ dpc[w][d] = "save"
            /\ ~cancelled[w]
            /\ item[i.id].status = Complete
            /\ item[i.id].version > i.version
            /\ i # item[i.id]

\* ------------------------------------------------------------------ C31
\* C31 (take-over only when expired): whenever the save of a watcher of
\* worker w succeeds on a Partition whose stored owner is not w, the stored
\* `until` lies before the time of the save; no step changes the stored owner
\* of a Partition whose lease has not expired.
C31_TakeOverOnlyExpired ==
    [][\A p \in Partitions :
          /\ \A w \in Workers :
                (WSaveStep(w, p) /\ WSaveOk(w, p) /\ part[p].owner # w) =>
                    /\ Expired(part[p])
                    /\ part'[p].owner = w
          /\ part'[p].owner # part[p].owner => Expired(part[p])]_vars

\* w1 has taken the Partition over from w2, whose watcher still holds the
\* copy it stored under its own name.
C31_Witness ==
    \E p \in Partitions :
        /\ part[p].owner = "w1"
        /\ wpc["w1"][p] # "none"
        /\ wpc["w2"][p] \in {"poll", "counts"}
        /\ pmem["w2"][p].owner = "w2"
        /\ pmem["w2"][p].version > 0
        /\ pmem["w2"][p].version < part[p].version

\* ------------------------------------------------------------------ C32
\* C32 (frame of a dispatch): a dispatch whose Process fails leaves the id,
\* version, gate and data of the Item as they were received, raises
\* retry_count by 1 and changes the status to Failed or not at all, to Failed
\* exactly when the error is not retryable or the raised count, which counts
\* every failure of the Item, is over a ceiling that is not negative; a
\* dispatch whose Process succeeds sets the gate to NextGate and the data to
\* the returned payload, changes the status to Complete when the response
\* says so and not otherwise, and leaves retry_count and error_messages; the
\* successful deferred Save stores the Item as the dispatch left it, one
\* version on, and no other Item.
C32_DispatchFrame ==
    [][\A w \in Workers, d \in Dispatchers :
          /\ DispatchStep(w, d) =>
                LET i == Head(itemQ[w])
                    j == ditem'[w][d]
                    e == derr'[w][d]
                    r == Process(i.data)
                IN  /\ j.id = i.id /\ j.version = i.version
                    /\ e.err =>
                          /\ j.gate = i.gate /\ j.data = i.data
                          /\ j.retry = i.retry + 1
                          /\ j.status \in {i.status, Failed}
                          /\ j.status = Failed <=>
                                \/ ~IsRetryable(e)
                                \/ j.retry > conf[w].MaxRetries /\ conf[w].MaxRetries >= 0
                    /\ ~e.err =>
                          /\ ~r.err
                          /\ j.gate = r.NextGate /\ j.data = r.Data
                          /\ j.status = IF r.Complete THEN Complete ELSE i.status
                          /\ j.retry = i.retry /\ j.errs = i.errs
          /\ (DSaveStep(w, d) /\ DSaveOk(w, d)) =>
                LET j == ditem[w][d]
                IN  /\ item'[j.id] = [j EXCEPT !.version = j.version + 1]
                    /\ \A k \in Items \ {j.id} : item'[k] = item[k]]_vars

\* A dispatch succeeded on an Item with a stored failure: the dispatcher is
\* about to save it with the new data, still Available, beside the
\* retry_count and error_messages of the failure.
C32_Witness ==
    \E w \in Workers, d \in Dispatchers :
        LET j == ditem[w][d]
        IN  /\ dpc[w][d] = "save" /\ ~derr[w][d].err
            /\ j.status = Available
            /\ j.retry = 1 /\ j.retry = item[j.id].retry
            /\ j.errs = item[j.id].errs /\ j.errs # <<>>
            /\ j.data.processed = item[j.id].data.processed + 1
            /\ j.version = item[j.id].version
            /\ ~cancelled[w]

====
